---- MODULE Spec2Model ----
(***************************************************************************)
(* Model of app/base/utils/schema.py: the extend_schema decorator, the     *)
(* ExtendedSchema layer it subclasses from the schema it finds on the      *)
(* decorated artifact, and the way it installs that layer on a view class, *)
(* an as_view() callable or a plain callable.                              *)
(*                                                                         *)
(* A chain is the method resolution order of a schema class, outermost     *)
(* ExtendedSchema first, with the default schema class (the baseline       *)
(* generator) left implicit at its end.                                    *)
(***************************************************************************)
EXTENDS Integers, Sequences, FiniteSets, TLC

VARIABLES att, grp, own, fview, last, gen

vars == <<att, grp, own, fview, last, gen>>

\* Most decorator applications in one run of the attachment specification.
MaxLayers == 3

-----------------------------------------------------------------------------
(* Values *)

\* Python's None inside a responses mapping.
NoneV == "None"

\* A keyword argument left at its default (None, or `empty`) / one provided.
Unset(d) == [given |-> FALSE, val |-> d]
Given(v) == [given |-> TRUE, val |-> v]

EmptyMap == [k \in {} |-> NoneV]

\* What a responses value can be: a dict, a Serializer instance, or anything
\* else (a Serializer class, an OpenApiTypes member, None).
Dict(m) == [kind |-> "dict", name |-> "", map |-> m]
Ser(n) == [kind |-> "serializer", name |-> n, map |-> EmptyMap]
Other(n) == [kind |-> "other", name |-> n, map |-> EmptyMap]

\* A summary may be a lazy (translated) string; str() turns it into a plain one.
Plain(t) == [lazy |-> FALSE, text |-> t]
Lazy(t) == [lazy |-> TRUE, text |-> t]
Str(s) == [lazy |-> FALSE, text |-> s.text]

\* Result of one accessor call: a value, or an exception leaving the call.
Ok(v) == [exc |-> "none", val |-> v]
Raise(e, v) == [exc |-> e, val |-> v]

\* str.upper() on the spellings of the HTTP method names that occur.
UpperTable ==
    [s \in {"get", "GET", "post", "POST", "put", "PUT", "patch", "PATCH",
            "delete", "DELETE", "head", "HEAD", "options", "OPTIONS",
            "trace", "TRACE"} |->
        CASE s \in {"get", "GET"} -> "GET"
          [] s \in {"post", "POST"} -> "POST"
          [] s \in {"put", "PUT"} -> "PUT"
          [] s \in {"patch", "PATCH"} -> "PATCH"
          [] s \in {"delete", "DELETE"} -> "DELETE"
          [] s \in {"head", "HEAD"} -> "HEAD"
          [] s \in {"options", "OPTIONS"} -> "OPTIONS"
          [] OTHER -> "TRACE"]

upper(s) == UpperTable[s]

-----------------------------------------------------------------------------
(* extend_schema: the keyword arguments and the closure the decorator keeps *)

\* extend_schema() with every argument at its default.
Defaults ==
    [operation_id |-> Unset(""), parameters |-> Unset(<<>>),
     request |-> Unset(""), responses |-> Unset(Other("")),
     auth |-> Unset(<<>>), description |-> Unset(""),
     summary |-> Unset(Plain("")), deprecated |-> Unset(FALSE),
     tags |-> Unset(<<>>), filters |-> Unset(FALSE), exclude |-> FALSE,
     operation |-> Unset(""), methods |-> Unset({}), versions |-> Unset({}),
     examples |-> Unset(<<>>), extensions |-> Unset(EmptyMap)]

\* The closure of decorator(): the arguments, with methods upper-cased.
extend_schema(kw) ==
    [kw EXCEPT !.methods =
        IF kw.methods.given
        THEN Given({upper(m) : m \in kw.methods.val})
        ELSE kw.methods]

\* Python truthiness of an optional argument of each type.
TruthyStr(s) == s.given /\ s.val # ""
TruthySeq(s) == s.given /\ Len(s.val) > 0
TruthyBool(s) == s.given /\ s.val
TruthyDict(s) == s.given /\ DOMAIN s.val # {}
TruthySummary(s) == s.given /\ s.val.text # ""

-----------------------------------------------------------------------------
(* The scope predicate and the per-field accessors of ExtendedSchema.       *)
(* o is the closure of one layer; x is the generation context: x.method is  *)
(* self.method, x.neg the outcome of view.determine_version, x.base the     *)
(* values of the default schema class's accessors, x.filter_backends the    *)
(* view's filter_backends attribute.                                        *)

\* Mutant of is_in_scope: the negotiation failure is caught and the version
\* filter is taken to match.
is_in_scope_swallow(o, x) ==
    LET method_scope == ~o.methods.given \/ x.method \in o.methods.val
    IN IF x.neg = "raise"
       THEN (IF method_scope THEN "in" ELSE "out")
       ELSE IF method_scope /\ (~o.versions.given \/ x.neg \in o.versions.val)
            THEN "in" ELSE "out"

\* "raise" when determine_version raises, else "in" or "out".
is_in_scope(o, x) ==
    IF x.neg = "raise" THEN "raise"
    ELSE LET version_scope == ~o.versions.given \/ x.neg \in o.versions.val
             method_scope == ~o.methods.given \/ x.method \in o.methods.val
         IN IF method_scope /\ version_scope THEN "in" ELSE "out"

\* `if <slot test> and is_in_scope(self): return <onIn>` / `return <sup>`.
Guarded(active, o, x, onIn, sup) ==
    IF ~active THEN sup
    ELSE LET s == is_in_scope(o, x)
         IN CASE s = "raise" -> Raise("negotiation", sup.val)
              [] s = "in" -> onIn
              [] OTHER -> sup

_method__status ==
    ("GET" :> 200) @@ ("POST" :> 201) @@ ("PUT" :> 200) @@ ("PATCH" :> 200)
    @@ ("DELETE" :> 204) @@ ("HEAD" :> 200) @@ ("OPTIONS" :> 200)
    @@ ("TRACE" :> 200)

\* Mutant of DictUnion: the left operand wins on a shared key.
DictUnionLeftWins(a, b) ==
    [k \in DOMAIN a \cup DOMAIN b |-> IF k \in DOMAIN a THEN a[k] ELSE b[k]]

\* dict | dict: the right operand wins on a shared key.
DictUnion(a, b) ==
    [k \in DOMAIN a \cup DOMAIN b |-> IF k \in DOMAIN b THEN b[k] ELSE a[k]]

\* The decorator _delete_none applied to a returned value.
_delete_none(res) ==
    IF res.kind = "dict"
    THEN Dict([k \in {j \in DOMAIN res.map : res.map[j] # NoneV} |-> res.map[k]])
    ELSE res

RECURSIVE get_operation(_, _)

\* Mutant of get_operation: the raw operation is tested before exclude.
get_operation_raw_first(c, x) ==
    IF c = <<>> THEN Ok([kind |-> "baseline", raw |-> ""])
    ELSE LET o == Head(c)
             sup == get_operation(Tail(c), x)
         IN Guarded(o.operation.given, o, x,
                Ok([kind |-> "raw", raw |-> o.operation.val]),
                Guarded(o.exclude, o, x,
                    Ok([kind |-> "omitted", raw |-> ""]), sup))

get_operation(c, x) ==
    IF c = <<>> THEN Ok([kind |-> "baseline", raw |-> ""])
    ELSE LET o == Head(c)
             sup == get_operation(Tail(c), x)
             omitted == Ok([kind |-> "omitted", raw |-> ""])
         IN Guarded(o.exclude, o, x, omitted,
                Guarded(o.operation.given, o, x,
                    Ok([kind |-> "raw", raw |-> o.operation.val]), sup))

RECURSIVE get_operation_id(_, _)
get_operation_id(c, x) ==
    IF c = <<>> THEN Ok(x.base.operation_id)
    ELSE LET o == Head(c)
         IN Guarded(TruthyStr(o.operation_id), o, x, Ok(o.operation_id.val),
                get_operation_id(Tail(c), x))

\* Mutant of Append2: the override's entries come first.
Append2Prepend(sup, extra) ==
    IF sup.exc # "none" THEN sup ELSE Ok(extra \o sup.val)

\* `super().get_override_parameters() + parameters`
Append2(sup, extra) ==
    IF sup.exc # "none" THEN sup ELSE Ok(sup.val \o extra)

RECURSIVE get_override_parameters(_, _)
get_override_parameters(c, x) ==
    IF c = <<>> THEN Ok(x.base.parameters)
    ELSE LET o == Head(c)
             sup == get_override_parameters(Tail(c), x)
         IN Guarded(TruthySeq(o.parameters), o, x,
                Append2(sup, o.parameters.val), sup)

RECURSIVE get_auth(_, _)
get_auth(c, x) ==
    IF c = <<>> THEN Ok(x.base.auth)
    ELSE LET o == Head(c)
         IN Guarded(TruthySeq(o.auth), o, x, Ok(o.auth.val),
                get_auth(Tail(c), x))

RECURSIVE get_examples(_, _)
get_examples(c, x) ==
    IF c = <<>> THEN Ok(x.base.examples)
    ELSE LET o == Head(c)
             sup == get_examples(Tail(c), x)
         IN Guarded(TruthySeq(o.examples), o, x,
                Append2(sup, o.examples.val), sup)

RECURSIVE get_request_serializer(_, _)
get_request_serializer(c, x) ==
    IF c = <<>> THEN Ok(x.base.request)
    ELSE LET o == Head(c)
         IN Guarded(o.request.given, o, x, Ok(o.request.val),
                get_request_serializer(Tail(c), x))

\* The body of get_response_serializers once super() has returned sr and the
\* scope test has passed.
MergeResponses(o, x, sr) ==
    IF o.responses.val.kind = "dict" /\ sr.kind = "dict"
    THEN Ok(Dict(DictUnion(sr.map, o.responses.val.map)))
    ELSE IF o.responses.val.kind = "dict" /\ sr.kind = "serializer"
    THEN IF x.method \in DOMAIN _method__status
         THEN Ok(Dict(DictUnion(_method__status[x.method] :> sr.name,
                                o.responses.val.map)))
         ELSE Raise("KeyError", sr)
    ELSE Ok(o.responses.val)

\* The wrapper _delete_none makes around a call that returned (or raised) r.
Wrapped(r) ==
    IF r.exc # "none" THEN r ELSE Ok(_delete_none(r.val))

RECURSIVE get_response_serializers(_, _)
get_response_serializers(c, x) ==
    IF c = <<>> THEN Ok(x.base.responses)
    ELSE LET o == Head(c)
             sup == get_response_serializers(Tail(c), x)
         IN IF sup.exc # "none" THEN sup
            ELSE Wrapped(Guarded(o.responses.given, o, x,
                             MergeResponses(o, x, sup.val), sup))

RECURSIVE get_description(_, _)
get_description(c, x) ==
    IF c = <<>> THEN Ok(x.base.description)
    ELSE LET o == Head(c)
         IN Guarded(TruthyStr(o.description), o, x, Ok(o.description.val),
                get_description(Tail(c), x))

RECURSIVE get_summary(_, _)
get_summary(c, x) ==
    IF c = <<>> THEN Ok(x.base.summary)
    ELSE LET o == Head(c)
         IN Guarded(TruthySummary(o.summary), o, x, Ok(Str(o.summary.val)),
                get_summary(Tail(c), x))

RECURSIVE is_deprecated(_, _)
is_deprecated(c, x) ==
    IF c = <<>> THEN Ok(x.base.deprecated)
    ELSE LET o == Head(c)
         IN Guarded(TruthyBool(o.deprecated), o, x, Ok(o.deprecated.val),
                is_deprecated(Tail(c), x))

RECURSIVE get_tags(_, _)
get_tags(c, x) ==
    IF c = <<>> THEN Ok(x.base.tags)
    ELSE LET o == Head(c)
         IN Guarded(o.tags.given, o, x, Ok(o.tags.val), get_tags(Tail(c), x))

RECURSIVE get_extensions(_, _)
get_extensions(c, x) ==
    IF c = <<>> THEN Ok(x.base.extensions)
    ELSE LET o == Head(c)
         IN Guarded(TruthyDict(o.extensions), o, x, Ok(o.extensions.val),
                get_extensions(Tail(c), x))

RECURSIVE get_filter_backends(_, _)
get_filter_backends(c, x) ==
    IF c = <<>> THEN Ok(x.base.filter_backends)
    ELSE LET o == Head(c)
         IN Guarded(o.filters.given, o, x,
                Ok(IF o.filters.val THEN x.filter_backends ELSE <<>>),
                get_filter_backends(Tail(c), x))

-----------------------------------------------------------------------------
(* The decorated artifacts.  One view class ("group") with two view        *)
(* methods, one as_view() callable carrying a `cls` attribute ("fview"),    *)
(* and one object that is neither a class nor callable ("other").           *)

Handlers == {"h1", "h2"}

NoSchema == [has |-> FALSE, chain |-> <<>>]
Schema(c) == [has |-> TRUE, chain |-> c]

Range(s) == {s[i] : i \in DOMAIN s}

\* The method resolution order of type(name, (A, B), {}) from the orders a
\* of A and b of B (C3 linearisation).  Python raises TypeError when neither
\* head can be taken; every layer here is subclassed from the one found on
\* the artifact, so the orders never conflict.
RECURSIVE c3merge(_, _)
c3merge(a, b) ==
    IF a = <<>> THEN b
    ELSE IF b = <<>> THEN a
    ELSE IF Head(a) = Head(b) THEN <<Head(a)>> \o c3merge(Tail(a), Tail(b))
    ELSE IF Head(a) \notin Range(Tail(b)) THEN <<Head(a)>> \o c3merge(Tail(a), b)
    ELSE <<Head(b)>> \o c3merge(a, Tail(b))

\* Mutant of ExtendedSchema: the new layer is consulted last.
ExtendedSchemaInnermost(n, base) == base \o <<n>>

\* class ExtendedSchema(BaseSchema): the new class first, then its base's order.
ExtendedSchema(n, base) == <<n>> \o base

\* Mutant of BaseSchema: the schema already on the artifact is not looked up.
BaseSchemaDefaultOnly(site) == <<>>

\* BaseSchema for each shape: the first of f.schema, f.kwargs['schema'],
\* f.cls.kwargs['schema'] that is there, else the default schema class.
BaseSchema(site) ==
    CASE site = "group" -> grp
      [] site = "fview" -> IF fview.cls.has THEN fview.cls.chain ELSE <<>>
      [] site \in Handlers -> IF own[site].has THEN own[site].chain ELSE <<>>
      [] OTHER -> <<>>

\* Mutant of ExtendedMetaSchema: the bases are given in the other order.
ExtendedMetaSchemaSwapped(prior, ext) == c3merge(ext, prior)

\* type('ExtendedMetaSchema', (view_method.kwargs['schema'], ExtendedSchema), {})
ExtendedMetaSchema(prior, ext) == c3merge(prior, ext)

NoGen == [site |-> "none"]

\* decorator(f) for a class.
DecorateClass(d) ==
    LET n == Len(att) + 1
        ext == ExtendedSchema(n, BaseSchema("group"))
    IN /\ Len(att) < MaxLayers
       /\ att' = Append(att, [decl |-> d, site |-> "group"])
       /\ own' = [h \in Handlers |->
                    IF own[h].has
                    THEN Schema(ExtendedMetaSchema(own[h].chain, ext))
                    ELSE own[h]]
       /\ grp' = ext
       /\ last' = [site |-> "group", outcome |-> "returned", installed |-> TRUE,
                   warned |-> d.operation_id.given \/ d.operation.given]
       /\ gen' = NoGen
       /\ UNCHANGED fview

\* decorator(f) for a callable with a `cls` attribute.
DecorateView(d) ==
    LET n == Len(att) + 1
        ext == ExtendedSchema(n, BaseSchema("fview"))
    IN /\ Len(att) < MaxLayers
       /\ att' = Append(att, [decl |-> d, site |-> "fview"])
       /\ fview' = [cls |-> Schema(ext), handlers |-> Schema(ext)]
       /\ last' = [site |-> "fview", outcome |-> "returned", installed |-> TRUE,
                   warned |-> FALSE]
       /\ gen' = NoGen
       /\ UNCHANGED <<grp, own>>

\* decorator(f) for any other callable: a view method of the class.
DecoratePlain(d, h) ==
    LET n == Len(att) + 1
        ext == ExtendedSchema(n, BaseSchema(h))
    IN /\ Len(att) < MaxLayers
       /\ att' = Append(att, [decl |-> d, site |-> h])
       /\ own' = [own EXCEPT ![h] = Schema(ext)]
       /\ last' = [site |-> h, outcome |-> "returned", installed |-> TRUE,
                   warned |-> FALSE]
       /\ gen' = NoGen
       /\ UNCHANGED <<grp, fview>>

\* Mutant of DecorateOther: the decorator raises instead of returning f.
DecorateOtherRaises(d) ==
    /\ Len(att) < MaxLayers
    /\ att' = Append(att, [decl |-> d, site |-> "other"])
    /\ last' = [site |-> "other", outcome |-> "raised", installed |-> FALSE,
                warned |-> FALSE]
    /\ gen' = NoGen
    /\ UNCHANGED <<grp, own, fview>>

\* decorator(f) for anything else: the class is built and f is returned.
DecorateOther(d) ==
    /\ Len(att) < MaxLayers
    /\ att' = Append(att, [decl |-> d, site |-> "other"])
    /\ last' = [site |-> "other", outcome |-> "returned", installed |-> FALSE,
                warned |-> FALSE]
    /\ gen' = NoGen
    /\ UNCHANGED <<grp, own, fview>>

-----------------------------------------------------------------------------
(* Document generation *)

\* The schema class that serves a view method: the one in the method's own
\* kwargs when there is one, else the one installed on the class.
SchemaFor(site) ==
    CASE site \in Handlers -> IF own[site].has THEN own[site].chain ELSE grp
      [] OTHER -> IF fview.handlers.has THEN fview.handlers.chain ELSE <<>>

\* The closures of the layers of a chain, outermost first.
Closures(chain) == [i \in 1..Len(chain) |-> att[chain[i]].decl]

\* The view's filter_backends attribute.
ViewFilterBackends == <<"OrderingFilter">>

\* One pass for one operation: get_operation(..., method_, ...) sets
\* self.method, then every accessor is read.
Document(c, x) ==
    [operation |-> get_operation(c, x),
     operation_id |-> get_operation_id(c, x),
     parameters |-> get_override_parameters(c, x),
     request |-> get_request_serializer(c, x),
     responses |-> get_response_serializers(c, x),
     auth |-> get_auth(c, x),
     description |-> get_description(c, x),
     summary |-> get_summary(c, x),
     deprecated |-> is_deprecated(c, x),
     tags |-> get_tags(c, x),
     extensions |-> get_extensions(c, x),
     filters |-> get_filter_backends(c, x),
     examples |-> get_examples(c, x)]

Context(method_, neg, base) ==
    [method |-> upper(method_), neg |-> neg, base |-> base,
     filter_backends |-> ViewFilterBackends]

Generate(site, method_, neg, base) ==
    LET chain == SchemaFor(site)
        x == Context(method_, neg, base)
    IN /\ gen' = [site |-> site, chain |-> chain, x |-> x,
                  doc |-> Document(Closures(chain), x)]
       /\ UNCHANGED <<att, grp, own, fview, last>>

-----------------------------------------------------------------------------
(* Inputs *)

BaseSer ==
    [operation_id |-> "auto_id", parameters |-> <<>>, request |-> "ReqB",
     responses |-> Ser("S"), auth |-> <<"tokenB">>, description |-> "docB",
     summary |-> Plain(""), deprecated |-> FALSE, tags |-> <<"api">>,
     filter_backends |-> <<"SearchFilter">>, examples |-> <<>>,
     extensions |-> EmptyMap]

BaseDict ==
    [operation_id |-> "auto_id", parameters |-> <<"P1">>, request |-> "ReqB",
     responses |-> Dict((200 :> "B200") @@ (204 :> NoneV)),
     auth |-> <<"tokenB">>, description |-> "docB",
     summary |-> Plain("sumB"), deprecated |-> TRUE, tags |-> <<"api">>,
     filter_backends |-> <<>>, examples |-> <<"E1">>,
     extensions |-> ("x-base" :> "1")]

BaseOther == [BaseSer EXCEPT !.responses = Other("SerializerClass")]

BaseEmptyDict == [BaseDict EXCEPT !.responses = Dict(EmptyMap)]

AllBases == {BaseSer, BaseDict, BaseOther, BaseEmptyDict}

KwEmpty ==
    [Defaults EXCEPT
        !.operation_id = Given(""), !.parameters = Given(<<>>),
        !.request = Given("None"), !.responses = Given(Dict(EmptyMap)),
        !.auth = Given(<<>>), !.description = Given(""),
        !.summary = Given(Plain("")), !.deprecated = Given(FALSE),
        !.tags = Given(<<>>), !.filters = Given(FALSE),
        !.examples = Given(<<>>), !.extensions = Given(EmptyMap)]

KwFull ==
    [Defaults EXCEPT
        !.operation_id = Given("opX"), !.parameters = Given(<<"P2">>),
        !.request = Given("ReqX"), !.responses = Given(Dict(404 :> "X")),
        !.auth = Given(<<"tokenX">>), !.description = Given("docX"),
        !.summary = Given(Lazy("sumX")), !.deprecated = Given(TRUE),
        !.tags = Given(<<"tagX">>), !.filters = Given(TRUE),
        !.examples = Given(<<"E2">>),
        !.extensions = Given("x-badges" :> "beta")]

KwAlt ==
    [Defaults EXCEPT
        !.parameters = Given(<<"P1">>), !.responses = Given(Ser("SX")),
        !.request = Given("None"), !.tags = Given(<<"tagY">>),
        !.examples = Given(<<"E1">>), !.summary = Given(Plain("sumY"))]

KwNull ==
    [Defaults EXCEPT
        !.responses = Given(Dict((200 :> NoneV) @@ (201 :> "Created")))]

KwCollide ==
    [Defaults EXCEPT
        !.responses = Given(Dict((200 :> "X200") @@ (201 :> "Created")
                                 @@ (204 :> "X204")))]

Fills == {Defaults, KwEmpty, KwFull, KwAlt, KwNull, KwCollide}

AllKwargs ==
    {[f EXCEPT !.methods = ms, !.versions = vs, !.exclude = e, !.operation = op] :
        f \in Fills,
        ms \in {Unset({}), Given({"post"}), Given({"GET", "delete"})},
        vs \in {Unset({}), Given({"v1"})},
        e \in BOOLEAN,
        op \in {Unset(""), Given("rawX")}}

AllMethods ==
    {"get", "POST", "put", "PATCH", "delete", "head", "OPTIONS", "trace"}

Negotiations == {"v1", "v2", "raise"}

\* The declarations attached in the attachment specification.
DeclA ==
    extend_schema([Defaults EXCEPT
        !.tags = Given(<<"a">>), !.parameters = Given(<<"PA">>),
        !.examples = Given(<<"EA">>), !.operation_id = Given("opA"),
        !.responses = Given(Dict((404 :> "X") @@ (204 :> "Gone"))),
        !.auth = Given(<<"tokenA">>)])

DeclB ==
    extend_schema([Defaults EXCEPT
        !.tags = Given(<<"b">>), !.parameters = Given(<<"PB">>),
        !.description = Given("B"), !.methods = Given({"post"}),
        !.request = Given("ReqB2"), !.deprecated = Given(TRUE),
        !.filters = Given(TRUE), !.extensions = Given("x-badges" :> "beta")])

Decls == {DeclA, DeclB}

-----------------------------------------------------------------------------
(* Specifications *)

\* Nothing decorated yet: the class carries the default schema.
Init ==
    /\ att = <<>>
    /\ grp = <<>>
    /\ own = [h \in Handlers |-> NoSchema]
    /\ fview = [cls |-> NoSchema, handlers |-> NoSchema]
    /\ last = [site |-> "none", outcome |-> "none", installed |-> FALSE,
               warned |-> FALSE]
    /\ gen = NoGen

AttachClass == \E d \in Decls : DecorateClass(d)
AttachView == \E d \in Decls : DecorateView(d)
AttachPlain == \E d \in Decls, h \in Handlers : DecoratePlain(d, h)
AttachOther == \E d \in Decls : DecorateOther(d)
GenerateAny ==
    \E site \in Handlers \cup {"fview"}, m \in {"get", "POST"},
       neg \in {"v1", "raise"} :
        Generate(site, m, neg, BaseDict)

Next == AttachClass \/ AttachView \/ AttachPlain \/ AttachOther \/ GenerateAny

Spec == Init /\ [][Next]_vars

\* One declaration, any of AllKwargs, applied once to the view method h1.
InitAcc ==
    /\ \E kw \in AllKwargs : att = <<[decl |-> extend_schema(kw), site |-> "h1"]>>
    /\ grp = <<>>
    /\ own = [h \in Handlers |-> IF h = "h1" THEN Schema(<<1>>) ELSE NoSchema]
    /\ fview = [cls |-> NoSchema, handlers |-> NoSchema]
    /\ last = [site |-> "h1", outcome |-> "returned", installed |-> TRUE,
               warned |-> FALSE]
    /\ gen = NoGen

GenerateAcc ==
    \E m \in AllMethods, neg \in Negotiations, base \in AllBases :
        Generate("h1", m, neg, base)

NextAcc == GenerateAcc

SpecAcc == InitAcc /\ [][NextAcc]_vars

-----------------------------------------------------------------------------
(* Properties of one layer (checked under SpecAcc) *)

HasGen == gen.site # "none"

\* The scope of a declaration, as the specification words it: the
\* upper-cased method is in `methods` (or that is unset) and the negotiated
\* version is in `versions` (or that is unset).
Negotiated(x) == x.neg # "raise"
ScopeMatches(o, x) ==
    /\ Negotiated(x)
    /\ ~o.methods.given \/ x.method \in o.methods.val
    /\ ~o.versions.given \/ x.neg \in o.versions.val
OutOfScope(o, x) == Negotiated(x) /\ ~ScopeMatches(o, x)

\* The single layer of SpecAcc, the context and the document of the last pass.
Layer == att[1].decl
GenBase == gen.x.base
Doc == gen.doc

\* C1: for every per-field accessor, when the operation is out of scope or
\* the accessor's slot is unset, the accessor returns exactly what the wrapped
\* baseline accessor returns, whatever the baseline value is (a responses
\* mapping with a null-valued entry included).
C1_FrameAllAccessors ==
    HasGen =>
        LET pass(slot) == ~slot.given \/ OutOfScope(Layer, gen.x)
        IN /\ pass(Layer.operation_id) => Doc.operation_id = Ok(GenBase.operation_id)
           /\ pass(Layer.parameters) => Doc.parameters = Ok(GenBase.parameters)
           /\ pass(Layer.request) => Doc.request = Ok(GenBase.request)
           /\ pass(Layer.responses) => Doc.responses = Ok(GenBase.responses)
           /\ pass(Layer.auth) => Doc.auth = Ok(GenBase.auth)
           /\ pass(Layer.description) => Doc.description = Ok(GenBase.description)
           /\ pass(Layer.summary) => Doc.summary = Ok(GenBase.summary)
           /\ pass(Layer.deprecated) => Doc.deprecated = Ok(GenBase.deprecated)
           /\ pass(Layer.tags) => Doc.tags = Ok(GenBase.tags)
           /\ pass(Layer.extensions) => Doc.extensions = Ok(GenBase.extensions)
           /\ pass(Layer.filters) => Doc.filters = Ok(GenBase.filter_backends)
           /\ pass(Layer.examples) => Doc.examples = Ok(GenBase.examples)

\* What a mapping m must be to be the union of b and r with r winning.
IsUnion(m, b, r) ==
    /\ DOMAIN m = DOMAIN b \cup DOMAIN r
    /\ \A k \in DOMAIN m : m[k] = IF k \in DOMAIN r THEN r[k] ELSE b[k]

\* The same, with the entries whose winning value is null left out.
IsUnionWithoutNulls(m, b, r) ==
    LET win(k) == IF k \in DOMAIN r THEN r[k] ELSE b[k]
    IN /\ DOMAIN m = {k \in DOMAIN b \cup DOMAIN r : win(k) # NoneV}
       /\ \A k \in DOMAIN m : m[k] = win(k)

\* The status the specification gives each method.
StatusOf(method) ==
    IF method = "POST" THEN 201 ELSE IF method = "DELETE" THEN 204 ELSE 200

MappingOverrideInScope ==
    /\ HasGen
    /\ ScopeMatches(Layer, gen.x)
    /\ Layer.responses.given
    /\ Layer.responses.val.kind = "dict"

\* C2 as stated: with an in-scope mapping-shaped responses override R, the
\* result is the union of the baseline mapping B (or of {status(method): S}
\* for a baseline serializer instance S) with R, R winning on a shared key.
C2_UnionExactly ==
    MappingOverrideInScope =>
        LET R == Layer.responses.val.map
            B == GenBase.responses
        IN /\ B.kind = "dict" =>
                /\ Doc.responses.exc = "none"
                /\ Doc.responses.val.kind = "dict"
                /\ IsUnion(Doc.responses.val.map, B.map, R)
           /\ B.kind = "serializer" =>
                /\ Doc.responses.exc = "none"
                /\ Doc.responses.val.kind = "dict"
                /\ IsUnion(Doc.responses.val.map,
                           StatusOf(gen.x.method) :> B.name, R)

\* C2 as amended: the result is that union with its null-valued entries
\* removed; baseline S with override {404: X} gives {status(method): S, 404: X}.
C2_UnionWithoutNulls ==
    MappingOverrideInScope =>
        LET R == Layer.responses.val.map
            B == GenBase.responses
        IN /\ B.kind = "dict" =>
                /\ Doc.responses.exc = "none"
                /\ Doc.responses.val.kind = "dict"
                /\ IsUnionWithoutNulls(Doc.responses.val.map, B.map, R)
           /\ B.kind = "serializer" =>
                /\ Doc.responses.exc = "none"
                /\ Doc.responses.val.kind = "dict"
                /\ IsUnionWithoutNulls(Doc.responses.val.map,
                                       StatusOf(gen.x.method) :> B.name, R)
           /\ (B.kind = "serializer" /\ R = (404 :> "X")) =>
                Doc.responses.val.map =
                    (StatusOf(gen.x.method) :> B.name) @@ (404 :> "X")

\* A DELETE whose baseline serializer S is merged with the override {404: X}.
C2_Witness ==
    /\ MappingOverrideInScope
    /\ gen.x.method = "DELETE"
    /\ GenBase.responses = Ser("S")
    /\ Doc.responses = Ok(Dict((204 :> "S") @@ (404 :> "X")))

\* C3: for an in-scope operation whose override sets exclude, get_operation
\* omits the operation whatever the other slots hold, the raw operation
\* override included; the baseline get_operation is not the result.
C3_ExclusionWins ==
    (HasGen /\ Layer.exclude /\ ScopeMatches(Layer, gen.x)) =>
        Doc.operation = Ok([kind |-> "omitted", raw |-> ""])

\* exclude and a raw operation both set and in scope; the operation is omitted.
C3_Witness ==
    /\ HasGen
    /\ Layer.exclude
    /\ Layer.operation.given
    /\ ScopeMatches(Layer, gen.x)
    /\ Doc.operation.val.kind = "omitted"

\* C5: a replace-policy slot provided with an explicit empty value is honored
\* when in scope: the accessor returns the provided value, not the baseline's.
C5_EmptyValueHonored ==
    (HasGen /\ ScopeMatches(Layer, gen.x)) =>
        /\ Layer.operation_id.given => Doc.operation_id = Ok(Layer.operation_id.val)
        /\ Layer.description.given => Doc.description = Ok(Layer.description.val)
        /\ Layer.summary.given =>
                /\ Doc.summary.exc = "none"
                /\ Doc.summary.val.text = Layer.summary.val.text
        /\ Layer.deprecated.given => Doc.deprecated = Ok(Layer.deprecated.val)
        /\ Layer.auth.given => Doc.auth = Ok(Layer.auth.val)
        /\ Layer.tags.given => Doc.tags = Ok(Layer.tags.val)
        /\ Layer.extensions.given => Doc.extensions = Ok(Layer.extensions.val)

\* C6: for an in-scope parameters override P and any baseline list L,
\* get_override_parameters returns L followed by P, nothing removed or moved.
C6_ParametersAppended ==
    (HasGen /\ ScopeMatches(Layer, gen.x) /\ Layer.parameters.given) =>
        Doc.parameters = Ok(GenBase.parameters \o Layer.parameters.val)

\* Baseline [P1] and override [P2] give [P1, P2].
C6_Witness ==
    /\ HasGen
    /\ ScopeMatches(Layer, gen.x)
    /\ GenBase.parameters = <<"P1">>
    /\ Layer.parameters = Given(<<"P2">>)
    /\ Doc.parameters = Ok(<<"P1", "P2">>)

\* C9: when version negotiation fails, every accessor whose slot holds a
\* non-empty override raises the failure, and an accessor that does return
\* returns the baseline value of a slot that is unset or empty: never the
\* override, never as if the scope had been decided.
C9_NegotiationFailurePropagates ==
    (HasGen /\ ~Negotiated(gen.x)) =>
        LET failed(r) == r.exc = "negotiation"
            quiet(r, b) == r = Ok(b)
        IN /\ (Layer.exclude \/ Layer.operation.given) => failed(Doc.operation)
           /\ failed(Doc.operation) \/ Doc.operation.val.kind = "baseline"
           /\ TruthyStr(Layer.operation_id) => failed(Doc.operation_id)
           /\ failed(Doc.operation_id) \/ quiet(Doc.operation_id, GenBase.operation_id)
           /\ TruthySeq(Layer.parameters) => failed(Doc.parameters)
           /\ failed(Doc.parameters) \/ quiet(Doc.parameters, GenBase.parameters)
           /\ Layer.request.given => failed(Doc.request)
           /\ failed(Doc.request) \/ quiet(Doc.request, GenBase.request)
           /\ Layer.responses.given => failed(Doc.responses)
           /\ TruthySeq(Layer.auth) => failed(Doc.auth)
           /\ failed(Doc.auth) \/ quiet(Doc.auth, GenBase.auth)
           /\ TruthyStr(Layer.description) => failed(Doc.description)
           /\ failed(Doc.description) \/ quiet(Doc.description, GenBase.description)
           /\ TruthySummary(Layer.summary) => failed(Doc.summary)
           /\ failed(Doc.summary) \/ quiet(Doc.summary, GenBase.summary)
           /\ TruthyBool(Layer.deprecated) => failed(Doc.deprecated)
           /\ failed(Doc.deprecated) \/ quiet(Doc.deprecated, GenBase.deprecated)
           /\ TruthySeq(Layer.tags) => failed(Doc.tags)
           /\ failed(Doc.tags) \/ quiet(Doc.tags, GenBase.tags)
           /\ TruthyDict(Layer.extensions) => failed(Doc.extensions)
           /\ failed(Doc.extensions) \/ quiet(Doc.extensions, GenBase.extensions)
           /\ Layer.filters.given => failed(Doc.filters)
           /\ failed(Doc.filters) \/ quiet(Doc.filters, GenBase.filter_backends)
           /\ TruthySeq(Layer.examples) => failed(Doc.examples)
           /\ failed(Doc.examples) \/ quiet(Doc.examples, GenBase.examples)

\* A version-scoped override with tags set, read after a failed negotiation.
C9_Witness ==
    /\ HasGen
    /\ ~Negotiated(gen.x)
    /\ Layer.versions.given
    /\ TruthySeq(Layer.tags)
    /\ Doc.tags.exc = "negotiation"

-----------------------------------------------------------------------------
(* Properties of attachment (checked under Spec) *)

Max(S) == CHOOSE i \in S : \A j \in S : j <= i

\* The decorator applications made directly on a site, by their position.
AttachedTo(site) == {i \in DOMAIN att : att[i].site = site}

\* A replace-policy field of declaration d that is set and in scope for x.
TagsApply(d, x) == d.tags.given /\ ScopeMatches(d, x)
DescriptionApplies(d, x) == TruthyStr(d.description) /\ ScopeMatches(d, x)

\* C4: over any sequence of attachments, a view method's document takes its
\* tags (and description) from the declaration attached last to that method
\* when that declaration sets them and is in scope; a method of the class
\* with no attachment of its own takes them from the declaration attached
\* last to the class.  The same holds for the as_view() callable.
C4_LastAttachedWins ==
    (HasGen /\ Negotiated(gen.x)) =>
        LET M == AttachedTo(gen.site)
            G == AttachedTo("group")
            uses(d) ==
                /\ TagsApply(d, gen.x) => Doc.tags = Ok(d.tags.val)
                /\ DescriptionApplies(d, gen.x) =>
                        Doc.description = Ok(d.description.val)
        IN /\ M # {} => uses(att[Max(M)].decl)
           /\ (gen.site \in Handlers /\ M = {} /\ G # {}) => uses(att[Max(G)].decl)

\* A, then B, attached to the method h1; a POST on h1 carries B's tags.
C4_Witness ==
    /\ HasGen
    /\ Len(att) = 2
    /\ att[1] = [decl |-> DeclA, site |-> "h1"]
    /\ att[2] = [decl |-> DeclB, site |-> "h1"]
    /\ gen.site = "h1"
    /\ gen.x.method = "POST"
    /\ Doc.tags = Ok(<<"b">>)

\* The last two decorator applications used the same declaration on the same
\* artifact, and the last pass was served by the schema installed on it.
AttachedTwice ==
    /\ HasGen
    /\ Len(att) >= 2
    /\ att[Len(att)] = att[Len(att) - 1]
    /\ att[Len(att)].site # "other"
    /\ \/ gen.site = att[Len(att)].site
       \/ /\ att[Len(att)].site = "group"
          /\ gen.site \in Handlers
          /\ AttachedTo(gen.site) = {}

\* The document the artifact's schema gave before the second application:
\* the chain without its outermost layer.
DocOnce == Document(Closures(Tail(gen.chain)), gen.x)

\* C7 as stated: attaching the same override twice to the same artifact
\* leaves every accessor, the appending ones included, returning what it
\* returned after one attachment.
C7_TwiceSameAsOnce ==
    AttachedTwice => Doc = DocOnce

\* C7 as amended: the second attachment stacks a second layer on the first;
\* every replacing accessor returns what it returned after one attachment,
\* and an appending accessor (parameters, examples) whose slot is non-empty
\* and in scope returns that value followed by the override's entries again.
C7_TwiceStacks ==
    AttachedTwice =>
        LET n == Len(att)
            d == att[n].decl
            again(now, once, slot) ==
                IF Len(slot.val) > 0 /\ slot.given /\ ScopeMatches(d, gen.x)
                THEN /\ once.exc = "none"
                     /\ now = Ok(once.val \o slot.val)
                ELSE now = once
        IN /\ Len(gen.chain) >= 2
           /\ gen.chain[1] = n
           /\ gen.chain[2] = n - 1
           /\ Doc.operation = DocOnce.operation
           /\ Doc.operation_id = DocOnce.operation_id
           /\ Doc.request = DocOnce.request
           /\ Doc.responses = DocOnce.responses
           /\ Doc.auth = DocOnce.auth
           /\ Doc.description = DocOnce.description
           /\ Doc.summary = DocOnce.summary
           /\ Doc.deprecated = DocOnce.deprecated
           /\ Doc.tags = DocOnce.tags
           /\ Doc.extensions = DocOnce.extensions
           /\ Doc.filters = DocOnce.filters
           /\ again(Doc.parameters, DocOnce.parameters, d.parameters)
           /\ again(Doc.examples, DocOnce.examples, d.examples)

\* A attached twice to h1: its parameter is appended twice.
C7_Witness ==
    /\ AttachedTwice
    /\ att[1] = [decl |-> DeclA, site |-> "h1"]
    /\ Len(att) = 2
    /\ Doc.parameters = Ok(<<"P1", "PA", "PA">>)

\* Every layer some schema of some artifact resolves through.
Installed ==
    Range(grp) \cup Range(fview.cls.chain) \cup Range(fview.handlers.chain)
    \cup UNION {Range(own[h].chain) : h \in Handlers}

GroupAfterOwn ==
    /\ HasGen
    /\ Negotiated(gen.x)
    /\ gen.site \in Handlers
    /\ AttachedTo(gen.site) # {}
    /\ att[Len(att)].site = "group"

\* C10 as stated: the newly attached class-level layer has priority over the
\* method's own layer for a field both set and both in scope.
C10_NewGroupLayerWins ==
    GroupAfterOwn =>
        LET a == att[Len(att)].decl
            b == att[Max(AttachedTo(gen.site))].decl
        IN (TagsApply(a, gen.x) /\ TagsApply(b, gen.x)) => Doc.tags = Ok(a.tags.val)

\* C10 as amended: the method's own layer keeps priority; the new class-level
\* layer is the fallback, used when no layer attached to the method itself
\* applies; a method without a layer of its own gets the new layer.
C10_OwnLayerWins ==
    /\ GroupAfterOwn =>
        LET a == att[Len(att)].decl
            own_ == AttachedTo(gen.site)
            b == att[Max(own_)].decl
        IN /\ (TagsApply(a, gen.x) /\ TagsApply(b, gen.x)) =>
                Doc.tags = Ok(b.tags.val)
           /\ (TagsApply(a, gen.x) /\ \A i \in own_ : ~TagsApply(att[i].decl, gen.x)) =>
                Doc.tags = Ok(a.tags.val)
    /\ (/\ HasGen
        /\ Negotiated(gen.x)
        /\ gen.site \in Handlers
        /\ AttachedTo(gen.site) = {}
        /\ Len(att) > 0
        /\ att[Len(att)].site = "group"
        /\ TagsApply(att[Len(att)].decl, gen.x)) =>
            Doc.tags = Ok(att[Len(att)].decl.tags.val)

\* B on the method h1, then A on the class; a POST on h1 keeps B's tags.
C10_Witness ==
    /\ GroupAfterOwn
    /\ Len(att) = 2
    /\ att[1] = [decl |-> DeclB, site |-> "h1"]
    /\ att[2] = [decl |-> DeclA, site |-> "group"]
    /\ gen.x.method = "POST"
    /\ gen.chain = <<1, 2>>
    /\ Doc.tags = Ok(<<"b">>)

====
